---- MODULE Spec2Model ----
(***************************************************************************)
(* OAuth token lifecycle (lib/oauth-client.ts), calendar response cache    *)
(* (lib/calendar-cache.ts) and the agenda fetch (api/static-calendar-      *)
(* enhanced.ts getEventsForDate) of the reTerminal dashboard.              *)
(*                                                                         *)
(* Every await of the code is a position of an invocation (pc); an action  *)
(* is the completion of one await together with the synchronous code that  *)
(* runs up to the next await.  Times are milliseconds.                     *)
(***************************************************************************)
EXTENDS Integers, Sequences, FiniteSets, TLC

\* ---------------------------------------------------------------- bounds
Epoch == 1000000
TickMs == 300000
MaxTicks == 1
MaxCalls == 2
MaxPuts == 1
\* the exercise of lib/calendar-cache.ts alone: clock step, steps, writes
CacheTickMs == 100000
MaxCacheTicks == 4
MaxCachePuts == 2
\* the widget: requests issued; the rotation hook: number of tabs
MaxRequests == 4
MaxItems == 5

Procs == {"p1", "p2"}
Dates == {"2026-01-26", "2026-01-27"}
\* offsets of the initially stored expiry_date from the initial clock
InitExpiryOffsets == {120000, 600000}
\* access-token lifetimes the token endpoint may grant (expires_in * 1000)
Lifetimes == {60000, 3600000}

\* ------------------------------------------------------ program constants
MAX_REFRESH_RETRIES == 3
RETRY_DELAY_MS == 1000
CACHE_TTL_SECONDS == 300
bufferMs == 5 * 60 * 1000
DefaultLifetimeMs == 3600 * 1000
CalendarId == "primary"

\* thrown errors, named by the spec's taxonomy; the value is the message
NotAuthorized == "OAuth tokens not found. Run the setup script: npm run oauth:setup"
ReauthorizationRequired == "OAuth refresh token is invalid. Please re-run: npm run oauth:setup"
RefreshFailed == "Failed to refresh OAuth tokens after multiple attempts. Re-authorization may be required."
ConfigError == "OAuth credentials not configured. Set GOOGLE_OAUTH_CLIENT_ID and GOOGLE_OAUTH_CLIENT_SECRET"
RedisNotConfigured == "Redis not configured"
UpstreamError == "events.list failed"
RedisSetError == "redis set failed"
RedisGetError == "redis get failed"
\* the status handler's answer when loadTokens returned null
Unauthenticated == "OAuth tokens not found. Run setup: npm run oauth:setup"

\* ------------------------------------------------------------- data types
\* OAuthTokens (scope and token_type carry no behaviour and are left out);
\* tokens are numbered in the order the authorization server minted them,
\* 0 stands for an absent / falsy field.
NoTokens == [access_token |-> 0, refresh_token |-> 0, expiry_date |-> 0]

TokenStorageData(t, at) == [tokens |-> t, updatedAt |-> at, calendarId |-> CalendarId]

\* upstream events: "" (0 for the attendee count) stands for an absent field
TimedEvent == [id |-> "e1", summary |-> "Standup",
               startDateTime |-> "2026-01-26T09:00:00+05:30", startDate |-> "",
               endDateTime |-> "2026-01-26T09:30:00+05:30", endDate |-> "",
               location |-> "Room 1", description |-> "", attendees |-> 2,
               status |-> "confirmed"]
AllDayEvent == [id |-> "e2", summary |-> "",
                startDateTime |-> "", startDate |-> "2026-01-26",
                endDateTime |-> "", endDate |-> "2026-01-27",
                location |-> "", description |-> "", attendees |-> 0,
                status |-> ""]
UpstreamItems == {<<>>, <<AllDayEvent, TimedEvent>>}

Or(a, b) == IF a # "" THEN a ELSE b

\* the map callback with the all-day test inverted
NormalizeEvent_AllDayInverted(e) ==
  [id |-> e.id,
   summary |-> Or(e.summary, "No Title"),
   start |-> Or(e.startDateTime, e.startDate),
   end |-> Or(e.endDateTime, e.endDate),
   location |-> e.location,
   allDay |-> (e.startDateTime # ""),
   description |-> e.description,
   attendees |-> e.attendees,
   status |-> e.status]

\* the map callback of getEventsForDate; location, description and status
\* are copied as they are, "" standing for undefined
NormalizeEvent(e) ==
  [id |-> e.id,
   summary |-> Or(e.summary, "No Title"),
   start |-> Or(e.startDateTime, e.startDate),
   end |-> Or(e.endDateTime, e.endDate),
   location |-> e.location,
   allDay |-> (e.startDateTime = ""),
   description |-> e.description,
   attendees |-> e.attendees,
   status |-> e.status]

CalendarResponse(items, d) ==
  [events |-> [i \in 1..Len(items) |-> NormalizeEvent(items[i])], date |-> d]

\* the properties of a CalendarEvent that may hold undefined
OptionalFields == {"location", "description", "status"}

\* JSON.stringify of one event: a property holding undefined is left out
StringifyEvent(e) ==
  [f \in (DOMAIN e) \ {k \in OptionalFields : e[k] = ""} |-> e[f]]

\* the JSON value the Redis client sends for a CalendarResponse (the
\* client serialises the value of setex with JSON.stringify and parses the
\* reply of get with JSON.parse, which gives this value back)
Stringify(data) ==
  [events |-> [i \in 1..Len(data.events) |-> StringifyEvent(data.events[i])],
   date |-> data.date]

NoPayload == [events |-> <<>>, date |-> ""]
NoEntry == [payload |-> NoPayload, expiresAt |-> 0]

\* ------------------------------------------------------------------ state
VARIABLES
  redisConfigured,  \* UPSTASH_REDIS_REST_URL / TOKEN are set
  oauthConfigured,  \* GOOGLE_OAUTH_CLIENT_ID / SECRET are set
  now,              \* Date.now()
  store,            \* Redis key google_oauth_tokens: <<>> or <<TokenStorageData>>
  cache,            \* Redis keys calendar_cache:<calendarId>:<date>
  serverSeq,        \* number of the last token the authorization server minted
  ticks, calls, puts,
  inv,              \* the invocations of the handlers, see Idle
  cacheObs,         \* the last call of lib/calendar-cache.ts, see NoCacheOp
  setups,           \* the last run of the setup script, see Authorize
  saves,            \* the last direct call of storeTokens, see NoSave
  widget,           \* the CalendarWidgetNoTouch component, see Unmounted
  rot               \* the useRotation hook, see Rotation

vars == <<redisConfigured, oauthConfigured, now, store, cache, serverSeq,
          ticks, calls, puts, inv, cacheObs, setups, saves, widget, rot>>

\* One invocation.  The first group is the program's state (its position
\* and its local variables), the second is an observation of what the
\* invocation did, written by the actions and read by the properties only.
Idle ==
  [pc |-> "idle",                \* idle, probe, load, refresh, store, sleep,
                                 \* list, done, hung
   kind |-> "agenda",            \* the handler: agenda or status
   date |-> "",                  \* dateStr
   tokens |-> NoTokens,          \* tokens as loaded by loadTokens
   attempt |-> 0,                \* loop counter of refreshTokensIfNeeded
   refreshedTokens |-> NoTokens, \* record built at line 132
   lastError |-> "",
   outcome |-> "none",           \* "none", "ok" or the thrown error
   result |-> NoPayload,         \* CalendarResponse returned
   cred |-> NoTokens,            \* tokens returned by refreshTokensIfNeeded
   \* ---- observation
   credAt |-> 0,                 \* clock when refreshTokensIfNeeded returned
   sleeps |-> <<>>,              \* delays passed to sleep()
   lookups |-> 0,                \* calls of loadTokens
   storeReads |-> 0,             \* redis.get of the credential key
   storeWrites |-> 0,            \* successful redis.set of the credential key
   listCalls |-> 0,              \* calendar.events.list calls issued
   startStore |-> <<>>,          \* the credential key when the call began
   startCache |-> NoEntry,       \* the cache entry of its date when it began
   hadLiveEntry |-> FALSE,       \* ... and whether it was unexpired
   serverRT |-> 0,               \* refresh_token of the last successful response
   serverExpiry |-> 0,           \* expiry_date of the last successful response
   respAt |-> 0,                 \* clock at the last successful response
   afterFailed |-> FALSE,        \* the previous call of p ended RefreshFailed
   loadSaw |-> "",               \* what redis.get met: absent, present, error
   loadAt |-> 0,                 \* clock when loadTokens returned
   rejects |-> 0,                \* rejections by the token endpoint
   probeSaw |-> "",              \* what the status handler's own redis.get met
   storeFails |-> 0,             \* redis.set calls of the credential key that threw
   listRejects |-> 0,            \* rejections by calendar.events.list
   grants |-> 0,                 \* responses of the token endpoint with credentials
   items |-> <<>>]               \* response.data.items of calendar.events.list

\* ------------------------------------------------------------ pure helpers
\* isTokenExpired with the safety margin doubled
isTokenExpired_DoubleBuffer(t, clock) ==
  IF t.expiry_date = 0 THEN TRUE
  ELSE clock >= t.expiry_date - 2 * bufferMs

\* isTokenExpired without the safety margin
isTokenExpired_NoBuffer(t, clock) ==
  IF t.expiry_date = 0 THEN TRUE
  ELSE clock >= t.expiry_date

\* isTokenExpired
isTokenExpired(t, clock) ==
  IF t.expiry_date = 0 THEN TRUE
  ELSE clock >= t.expiry_date - bufferMs

RECURSIVE Pow2(_)
Pow2(n) == IF n <= 0 THEN 1 ELSE 2 * Pow2(n - 1)

\* delay = RETRY_DELAY_MS * Math.pow(2, attempt - 1)
Delay(a) == RETRY_DELAY_MS * Pow2(a - 1)

\* the refresh token of the response taken as it is, present or not
KeepRefreshToken_AlwaysNew(new, old) == new

\* refresh_token: credentials.refresh_token || tokens.refresh_token
KeepRefreshToken(new, old) == IF new # 0 THEN new ELSE old

\* the expiry of the response taken as it is, present or not
ExpiryOrDefault_NoDefault(e, clock) == e

\* expiry_date: credentials.expiry_date || Date.now() + (3600 * 1000)
ExpiryOrDefault(e, clock) == IF e # 0 THEN e ELSE clock + DefaultLifetimeMs

\* getCachedCalendar on a reachable store: Redis drops the key at its TTL
CacheLive(e, clock) == e.expiresAt # 0 /\ clock < e.expiresAt

\* the time-to-live taken as a number of milliseconds
ExpiresAt_Millis(clock) == clock + CACHE_TTL_SECONDS

\* the expiry Redis gives a key written by setex(key, CACHE_TTL_SECONDS, _)
ExpiresAt(clock) == clock + CACHE_TTL_SECONDS * 1000

\* the reply of redis.get for a cache key: <<>> stands for null
Reply(e, clock) == IF CacheLive(e, clock) THEN <<e.payload>> ELSE <<>>

\* a reply counts as a hit only when it lists events
Truthy_NonEmptyAgenda(r) == r # <<>> /\ r[1].events # <<>>

\* if (cached): null is falsy, a parsed object is truthy
Truthy(r) == r # <<>>

\* the observation of a call of getCachedCalendar / setCachedCalendar, and
\* of the last write each key received
NoCacheOp ==
  [op |-> "none",                \* none, get, put
   key |-> "",                   \* the date of the key
   at |-> 0,                     \* clock of the call
   storeOk |-> TRUE,             \* the Redis command did not throw
   returned |-> <<>>,            \* <<>>: null / void, <<payload>>: a hit
   threw |-> FALSE,              \* the call rejected
   putAt |-> [d \in Dates |-> 0],          \* clock of the last setex that worked
   putData |-> [d \in Dates |-> NoPayload]] \* ... and the data passed to it

\* ------------------------------------------------- synchronous fragments
\* getOAuthCalendarClient lines 182-193 and getEventsForDate lines 30-42,
\* run when refreshTokensIfNeeded returned t: build the client (throws
\* when the OAuth client is not configured) and issue calendar.events.list.
WithCredential(l, t) ==
  IF oauthConfigured
  THEN [l EXCEPT !.cred = t, !.credAt = now, !.pc = "list",
                 !.listCalls = @ + 1]
  ELSE [l EXCEPT !.cred = t, !.credAt = now, !.pc = "done",
                 !.outcome = ConfigError]

\* the catch block without the invalid_grant test: every error is retried
Catch_RetryAll(l, err) ==
  IF l.attempt < MAX_REFRESH_RETRIES
  THEN [l EXCEPT !.lastError = err, !.pc = "sleep",
                 !.sleeps = Append(@, RETRY_DELAY_MS)]
  ELSE [l EXCEPT !.lastError = err, !.pc = "done",
                 !.outcome = RefreshFailed]

\* the catch block letting the error of storeTokens leave the loop
Catch_StoreErrorFatal(l, err) ==
  IF err = "invalid_grant"
  THEN [l EXCEPT !.lastError = err, !.pc = "done",
                 !.outcome = ReauthorizationRequired]
  ELSE IF err \in {RedisSetError, RedisNotConfigured}
  THEN [l EXCEPT !.lastError = err, !.pc = "done", !.outcome = err]
  ELSE IF l.attempt < MAX_REFRESH_RETRIES
  THEN [l EXCEPT !.lastError = err, !.pc = "sleep",
                 !.sleeps = Append(@, Delay(l.attempt))]
  ELSE [l EXCEPT !.lastError = err, !.pc = "done",
                 !.outcome = RefreshFailed]

\* the catch block sleeping after the last attempt too, the loop running
\* while attempt <= MAX_REFRESH_RETRIES + 1
Catch_OneMore(l, err) ==
  IF err = "invalid_grant"
  THEN [l EXCEPT !.lastError = err, !.pc = "done",
                 !.outcome = ReauthorizationRequired]
  ELSE IF l.attempt <= MAX_REFRESH_RETRIES
  THEN [l EXCEPT !.lastError = err, !.pc = "sleep",
                 !.sleeps = Append(@, Delay(l.attempt))]
  ELSE [l EXCEPT !.lastError = err, !.pc = "done",
                 !.outcome = RefreshFailed]

\* the catch block of refreshTokensIfNeeded, lines 146-162, and the throw
\* after the loop, lines 165-167
Catch(l, err) ==
  IF err = "invalid_grant"
  THEN [l EXCEPT !.lastError = err, !.pc = "done",
                 !.outcome = ReauthorizationRequired]
  ELSE IF l.attempt < MAX_REFRESH_RETRIES
  THEN [l EXCEPT !.lastError = err, !.pc = "sleep",
                 !.sleeps = Append(@, Delay(l.attempt))]
  ELSE [l EXCEPT !.lastError = err, !.pc = "done",
                 !.outcome = RefreshFailed]

\* refreshTokensIfNeeded lines 111-130, entered with the loaded tokens
EnterRefresh(l, t) ==
  IF ~isTokenExpired(t, now) THEN WithCredential([l EXCEPT !.tokens = t], t)
  ELSE IF ~oauthConfigured
  THEN [l EXCEPT !.tokens = t, !.pc = "done", !.outcome = ConfigError]
  ELSE [l EXCEPT !.tokens = t, !.attempt = 1, !.pc = "refresh"]

\* the missing-tokens test left out: the call goes on without tokens
ThrowNotFound_Proceed(l) == [l EXCEPT !.pc = "list", !.listCalls = @ + 1]

\* getOAuthCalendarClient line 175-177
ThrowNotFound(l) == [l EXCEPT !.pc = "done", !.outcome = NotAuthorized]

\* The Error that leaves getEventsForDate when an invocation ends with an
\* error: the errors of oauth-client.ts are built by new Error(message),
\* from the message alone (no cause, no reference to lastError); neither
\* getOAuthCalendarClient, getCalendarClient nor getEventsForDate catches,
\* so the object reaches the handler as thrown.
ThrownError(l) == [message |-> l.outcome, cause |-> ""]

\* the handler answering every error with the same text
HandlerResponse_Generic(l) ==
  IF l.outcome = "ok"
  THEN [status |-> 200, message |-> ""]
  ELSE [status |-> 500, message |-> "Failed to fetch calendar events"]

\* the HTTP handler around getEventsForDate: 200 with the page, or its
\* catch block: status 500 and the message of the error in the body
HandlerResponse(l) ==
  IF l.outcome = "ok"
  THEN [status |-> 200, message |-> ""]
  ELSE [status |-> 500, message |-> ThrownError(l).message]

\* ---------------------------------------------------------------- actions
\* A handler calls getEventsForDate(d): getCalendarClient ->
\* getOAuthCalendarClient -> loadTokens, up to its redis.get.
Start(p, d) ==
  /\ inv[p].pc \in {"idle", "done"}
  /\ calls < MaxCalls
  /\ calls' = calls + 1
  /\ LET l == [Idle EXCEPT !.date = d, !.lookups = 1,
                           !.startStore = store,
                           !.startCache = cache[d],
                           !.hadLiveEntry = CacheLive(cache[d], now),
                           !.afterFailed = (inv[p].outcome = RefreshFailed)]
     IN inv' = [inv EXCEPT ![p] =
                  IF redisConfigured
                  THEN [l EXCEPT !.pc = "load", !.storeReads = 1]
                  ELSE ThrowNotFound(l)]
  /\ UNCHANGED <<redisConfigured, oauthConfigured, now, store, cache,
                 serverSeq, ticks, puts,
                 cacheObs, setups,
                 saves, widget, rot>>

\* The OAuth status handler is called: its own loadTokens, up to redis.get.
StartStatus(p) ==
  /\ inv[p].pc \in {"idle", "done"}
  /\ calls < MaxCalls
  /\ calls' = calls + 1
  /\ LET l == [Idle EXCEPT !.kind = "status", !.lookups = 1,
                           !.startStore = store,
                           !.afterFailed = (inv[p].outcome = RefreshFailed)]
     IN inv' = [inv EXCEPT ![p] =
                  IF redisConfigured
                  THEN [l EXCEPT !.pc = "probe", !.storeReads = 1]
                  ELSE [l EXCEPT !.pc = "done", !.outcome = Unauthenticated]]
  /\ UNCHANGED <<redisConfigured, oauthConfigured, now, store, cache,
                 serverSeq, ticks, puts,
                 cacheObs, setups,
                 saves, widget, rot>>

\* the status handler's redis.get completes or throws: without tokens it
\* answers authenticated: false, with tokens it calls
\* getOAuthCalendarClient, which loads them again (up to that redis.get)
ProbeReturn(p, ok) ==
  /\ inv[p].pc = "probe"
  /\ LET l == [inv[p] EXCEPT !.probeSaw = IF ~ok THEN "error"
                                          ELSE IF store = <<>> THEN "absent"
                                          ELSE "present"]
     IN inv' = [inv EXCEPT ![p] =
                  IF ok /\ store # <<>>
                  THEN [l EXCEPT !.pc = "load", !.lookups = @ + 1,
                                 !.storeReads = @ + 1]
                  ELSE [l EXCEPT !.pc = "done", !.outcome = Unauthenticated]]
  /\ UNCHANGED <<redisConfigured, oauthConfigured, now, store, cache,
                 serverSeq, ticks, calls, puts,
                 cacheObs, setups,
                 saves, widget, rot>>

\* loadTokens without its catch block: the error of redis.get leaves it
LoadReturn_Raises(p, ok) ==
  /\ inv[p].pc = "load"
  /\ LET l == [inv[p] EXCEPT !.loadAt = now,
                              !.loadSaw = IF ~ok THEN "error"
                                          ELSE IF store = <<>> THEN "absent"
                                          ELSE "present"]
     IN inv' = [inv EXCEPT ![p] =
                  IF ~ok THEN [l EXCEPT !.pc = "done", !.outcome = RedisGetError]
                  ELSE IF store # <<>>
                  THEN EnterRefresh(l, store[1].tokens)
                  ELSE ThrowNotFound(l)]
  /\ UNCHANGED <<redisConfigured, oauthConfigured, now, store, cache,
                 serverSeq, ticks, calls, puts,
                 cacheObs, setups,
                 saves, widget, rot>>

\* redis.get(REDIS_KEY) completes (ok) or throws (~ok); loadTokens returns,
\* and the code runs on to the next await.
LoadReturn(p, ok) ==
  /\ inv[p].pc = "load"
  /\ LET l == [inv[p] EXCEPT !.loadAt = now,
                              !.loadSaw = IF ~ok THEN "error"
                                          ELSE IF store = <<>> THEN "absent"
                                          ELSE "present"]
     IN inv' = [inv EXCEPT ![p] =
                  IF ok /\ store # <<>>
                  THEN EnterRefresh(l, store[1].tokens)
                  ELSE ThrowNotFound(l)]
  /\ UNCHANGED <<redisConfigured, oauthConfigured, now, store, cache,
                 serverSeq, ticks, calls, puts,
                 cacheObs, setups,
                 saves, widget, rot>>

\* refreshTokensIfNeeded calling storeTokens without await: the refreshed
\* record is returned while the write is still to happen
RefreshOk_NoAwait(p, rotate, life) ==
  /\ inv[p].pc = "refresh"
  /\ serverSeq' = serverSeq + 1
  /\ LET rt == IF rotate THEN serverSeq' ELSE 0
         ex == IF life = 0 THEN 0 ELSE now + life
         r == [access_token |-> serverSeq',
               refresh_token |-> KeepRefreshToken(rt, inv[p].tokens.refresh_token),
               expiry_date |-> ExpiryOrDefault(ex, now)]
         l == [inv[p] EXCEPT !.refreshedTokens = r, !.serverRT = rt,
                             !.serverExpiry = ex, !.respAt = now,
                             !.grants = @ + 1]
     IN inv' = [inv EXCEPT ![p] = WithCredential(l, r)]
  /\ UNCHANGED <<redisConfigured, oauthConfigured, now, store, cache,
                 ticks, calls, puts,
                 cacheObs, setups,
                 saves, widget, rot>>

\* oauth2Client.refreshAccessToken() resolves with credentials carrying a
\* new access token, a refresh token rt (0: none) and an expiry_date
\* (0: none); lines 130-142 up to redis.set inside storeTokens.
RefreshOk(p, rotate, life) ==
  /\ inv[p].pc = "refresh"
  /\ serverSeq' = serverSeq + 1
  /\ LET rt == IF rotate THEN serverSeq' ELSE 0
         ex == IF life = 0 THEN 0 ELSE now + life
         r == [access_token |-> serverSeq',
               refresh_token |-> KeepRefreshToken(rt, inv[p].tokens.refresh_token),
               expiry_date |-> ExpiryOrDefault(ex, now)]
         l == [inv[p] EXCEPT !.refreshedTokens = r, !.serverRT = rt,
                             !.serverExpiry = ex, !.respAt = now,
                             !.grants = @ + 1]
     IN inv' = [inv EXCEPT ![p] =
                  IF redisConfigured THEN [l EXCEPT !.pc = "store"]
                  ELSE Catch(l, RedisNotConfigured)]
  /\ UNCHANGED <<redisConfigured, oauthConfigured, now, store, cache,
                 ticks, calls, puts,
                 cacheObs, setups,
                 saves, widget, rot>>

\* a rejected refresh marks the stored record by clearing its refresh token
RefreshFail_MarksInvalid(p, err) ==
  /\ inv[p].pc = "refresh"
  /\ inv' = [inv EXCEPT ![p] = Catch([inv[p] EXCEPT !.rejects = @ + 1], err)]
  /\ store' = IF store = <<>> THEN store
              ELSE <<[store[1] EXCEPT !.tokens.refresh_token = 0]>>
  /\ UNCHANGED <<redisConfigured, oauthConfigured, now, cache,
                 serverSeq, ticks, calls, puts,
                 cacheObs, setups,
                 saves, widget, rot>>

\* a refresh rejected with invalid_grant deletes the stored record
RefreshFail_DeletesRecord(p, err) ==
  /\ inv[p].pc = "refresh"
  /\ inv' = [inv EXCEPT ![p] = Catch([inv[p] EXCEPT !.rejects = @ + 1], err)]
  /\ store' = IF err = "invalid_grant" THEN <<>> ELSE store
  /\ UNCHANGED <<redisConfigured, oauthConfigured, now, cache,
                 serverSeq, ticks, calls, puts,
                 cacheObs, setups,
                 saves, widget, rot>>

\* oauth2Client.refreshAccessToken() rejects
RefreshFail(p, err) ==
  /\ inv[p].pc = "refresh"
  /\ inv' = [inv EXCEPT ![p] = Catch([inv[p] EXCEPT !.rejects = @ + 1], err)]
  /\ UNCHANGED <<redisConfigured, oauthConfigured, now, store, cache,
                 serverSeq, ticks, calls, puts,
                 cacheObs, setups,
                 saves, widget, rot>>

\* redis.set(REDIS_KEY, data) completes: storeTokens returns and
\* refreshTokensIfNeeded returns refreshedTokens (lines 91-92, 144-145);
\* data.updatedAt was stamped before the await, when storeTokens began
StoreOk(p) ==
  /\ inv[p].pc = "store"
  /\ store' = <<TokenStorageData(inv[p].refreshedTokens, inv[p].respAt)>>
  /\ inv' = [inv EXCEPT ![p] =
               WithCredential([inv[p] EXCEPT !.storeWrites = @ + 1],
                              inv[p].refreshedTokens)]
  /\ UNCHANGED <<redisConfigured, oauthConfigured, now, cache,
                 serverSeq, ticks, calls, puts,
                 cacheObs, setups,
                 saves, widget, rot>>

\* redis.set throws after the value was written (a lost reply)
StoreFail_Written(p) ==
  /\ inv[p].pc = "store"
  /\ store' = <<TokenStorageData(inv[p].refreshedTokens, inv[p].respAt)>>
  /\ inv' = [inv EXCEPT ![p] =
               Catch([inv[p] EXCEPT !.storeFails = @ + 1], RedisSetError)]
  /\ UNCHANGED <<redisConfigured, oauthConfigured, now, cache,
                 serverSeq, ticks, calls, puts,
                 cacheObs, setups,
                 saves, widget, rot>>

\* storeTokens without its rethrow: the error of redis.set is logged and
\* storeTokens returns
StoreFail_Swallowed(p) ==
  /\ inv[p].pc = "store"
  /\ inv' = [inv EXCEPT ![p] =
               WithCredential([inv[p] EXCEPT !.storeFails = @ + 1],
                              inv[p].refreshedTokens)]
  /\ UNCHANGED <<redisConfigured, oauthConfigured, now, store, cache,
                 serverSeq, ticks, calls, puts,
                 cacheObs, setups,
                 saves, widget, rot>>

\* redis.set throws: storeTokens rethrows into the catch block (93-96)
StoreFail(p) ==
  /\ inv[p].pc = "store"
  /\ inv' = [inv EXCEPT ![p] =
               Catch([inv[p] EXCEPT !.storeFails = @ + 1], RedisSetError)]
  /\ UNCHANGED <<redisConfigured, oauthConfigured, now, store, cache,
                 serverSeq, ticks, calls, puts,
                 cacheObs, setups,
                 saves, widget, rot>>

\* the timer of sleep(delay) fires; the loop starts the next attempt
SleepReturn(p) ==
  /\ inv[p].pc = "sleep"
  /\ now' = now + inv[p].sleeps[Len(inv[p].sleeps)]
  /\ inv' = [inv EXCEPT ![p] = [@ EXCEPT !.attempt = @ + 1, !.pc = "refresh"]]
  /\ UNCHANGED <<redisConfigured, oauthConfigured, store, cache,
                 serverSeq, ticks, calls, puts,
                 cacheObs, setups,
                 saves, widget, rot>>

\* calendar.events.list resolves with items: normalise and return (44-62)
ListOk(p, items) ==
  /\ inv[p].pc = "list"
  /\ inv' = [inv EXCEPT ![p] =
               [@ EXCEPT !.pc = "done", !.outcome = "ok", !.items = items,
                         !.result = IF inv[p].kind = "agenda"
                                    THEN CalendarResponse(items, inv[p].date)
                                    ELSE NoPayload]]
  /\ UNCHANGED <<redisConfigured, oauthConfigured, now, store, cache,
                 serverSeq, ticks, calls, puts,
                 cacheObs, setups,
                 saves, widget, rot>>

\* a rejected calendar.events.list is issued again
ListFail_Retry(p) ==
  /\ inv[p].pc = "list"
  /\ inv' = [inv EXCEPT ![p] =
               IF inv[p].listCalls < 2
               THEN [@ EXCEPT !.listRejects = @ + 1, !.listCalls = @ + 1]
               ELSE [@ EXCEPT !.listRejects = @ + 1, !.pc = "done",
                              !.outcome = UpstreamError]]
  /\ UNCHANGED <<redisConfigured, oauthConfigured, now, store, cache,
                 serverSeq, ticks, calls, puts,
                 cacheObs, setups,
                 saves, widget, rot>>

\* calendar.events.list rejects: the error leaves getEventsForDate (the
\* status handler catches it and answers calendarAccess: false)
ListFail(p) ==
  /\ inv[p].pc = "list"
  /\ inv' = [inv EXCEPT ![p] =
               [@ EXCEPT !.listRejects = @ + 1, !.pc = "done",
                         !.outcome = UpstreamError]]
  /\ UNCHANGED <<redisConfigured, oauthConfigured, now, store, cache,
                 serverSeq, ticks, calls, puts,
                 cacheObs, setups,
                 saves, widget, rot>>

\* The request p waits for is never answered.  redis.get, redis.set,
\* refreshAccessToken and calendar.events.list are awaited as they are: no
\* timeout option, no AbortSignal, no race against a timer; the invocation
\* stays at its await.
Hang(p) ==
  /\ inv[p].pc \in {"load", "refresh", "store", "list"}
  /\ inv' = [inv EXCEPT ![p] = [@ EXCEPT !.pc = "hung"]]
  /\ UNCHANGED <<redisConfigured, oauthConfigured, now, store, cache,
                 serverSeq, ticks, calls, puts,
                 cacheObs, setups,
                 saves, widget, rot>>

\* getCachedCalendar(generateCacheKey(calendarId, d)), whose redis.get
\* answers (ok) or throws (~ok); a hit is returned without its catch block
\* guarding the call
getCachedCalendar_Rethrow(d, ok) ==
  /\ cacheObs' = [cacheObs EXCEPT
       !.op = "get", !.key = d, !.at = now, !.storeOk = ok,
       !.threw = redisConfigured /\ ~ok,
       !.returned = IF redisConfigured /\ ok /\ Truthy(Reply(cache[d], now))
                    THEN Reply(cache[d], now) ELSE <<>>]
  /\ UNCHANGED <<redisConfigured, oauthConfigured, now, store, cache,
                 serverSeq, ticks, calls, puts, inv, setups,
                 saves, widget, rot>>

\* getCachedCalendar(generateCacheKey(calendarId, d)), whose redis.get
\* answers (ok) or throws (~ok)
getCachedCalendar(d, ok) ==
  /\ cacheObs' = [cacheObs EXCEPT
       !.op = "get", !.key = d, !.at = now, !.storeOk = ok,
       !.threw = FALSE,
       !.returned = IF redisConfigured /\ ok /\ Truthy(Reply(cache[d], now))
                    THEN Reply(cache[d], now) ELSE <<>>]
  /\ UNCHANGED <<redisConfigured, oauthConfigured, now, store, cache,
                 serverSeq, ticks, calls, puts, inv, setups,
                 saves, widget, rot>>

\* setCachedCalendar without its catch block
setCachedCalendar_Rethrow(d, data, ok) ==
  /\ puts' = puts + 1
  /\ cache' = IF redisConfigured /\ ok
              THEN [cache EXCEPT ![d] = [payload |-> Stringify(data),
                                         expiresAt |-> ExpiresAt(now)]]
              ELSE cache
  /\ cacheObs' = [cacheObs EXCEPT
       !.op = "put", !.key = d, !.at = now, !.storeOk = ok,
       !.threw = redisConfigured /\ ~ok, !.returned = <<>>,
       !.putAt[d] = IF redisConfigured /\ ok THEN now ELSE @,
       !.putData[d] = IF redisConfigured /\ ok THEN data ELSE @]
  /\ UNCHANGED <<redisConfigured, oauthConfigured, now, store,
                 serverSeq, ticks, calls, inv, setups,
                 saves, widget, rot>>

\* setCachedCalendar(generateCacheKey(calendarId, d), data), whose
\* redis.setex answers (ok) or throws (~ok)
setCachedCalendar(d, data, ok) ==
  /\ puts' = puts + 1
  /\ cache' = IF redisConfigured /\ ok
              THEN [cache EXCEPT ![d] = [payload |-> Stringify(data),
                                         expiresAt |-> ExpiresAt(now)]]
              ELSE cache
  /\ cacheObs' = [cacheObs EXCEPT
       !.op = "put", !.key = d, !.at = now, !.storeOk = ok,
       !.threw = FALSE, !.returned = <<>>,
       !.putAt[d] = IF redisConfigured /\ ok THEN now ELSE @,
       !.putData[d] = IF redisConfigured /\ ok THEN data ELSE @]
  /\ UNCHANGED <<redisConfigured, oauthConfigured, now, store,
                 serverSeq, ticks, calls, inv, setups,
                 saves, widget, rot>>

\* the outcome of the last run of the setup script: none yet
NoSetup == [wrote |-> FALSE, outcome |-> "none"]

\* the setup script exchanges the authorization code and calls
\* storeTokens(oauthTokens), whose redis.set answers (ok) or throws (~ok);
\* setups records what storeTokens did and whether the key was written.
\* The tokens of a run whose storeTokens throws are dropped with it and
\* take no number.
Authorize(ok) ==
  /\ store = <<>>
  /\ serverSeq' = IF redisConfigured /\ ok THEN serverSeq + 1 ELSE serverSeq
  /\ store' = IF redisConfigured /\ ok
              THEN <<TokenStorageData([access_token |-> serverSeq',
                                       refresh_token |-> serverSeq',
                                       expiry_date |-> now + DefaultLifetimeMs],
                                      now)>>
              ELSE store
  /\ setups' = [wrote |-> redisConfigured /\ ok,
                outcome |-> IF ~redisConfigured THEN RedisNotConfigured
                            ELSE IF ~ok THEN RedisSetError
                            ELSE "stored"]
  /\ UNCHANGED <<redisConfigured, oauthConfigured, now, cache,
                 ticks, calls, puts, inv, cacheObs,
                 saves, widget, rot>>

\* the observation of a direct call of storeTokens
NoSave ==
  [record |-> NoTokens,          \* the tokens passed
   at |-> 0,                     \* clock of the call
   threw |-> "",                 \* the error it threw, "" when it returned
   prev |-> <<>>,                \* the credential key before the call
   again |-> FALSE]              \* it returned, and the key held what an
                                 \* earlier call with the same tokens wrote

\* the records passed to storeTokens by a direct caller
SaveRecords ==
  {[access_token |-> 1, refresh_token |-> 1, expiry_date |-> Epoch + 600000],
   [access_token |-> 2, refresh_token |-> 1, expiry_date |-> Epoch + 3600000]}

\* storeTokens leaving the updatedAt of a record it finds under the key
storeTokens_KeepStamp(t, ok) ==
  /\ store' = IF redisConfigured /\ ok
              THEN <<TokenStorageData(t, IF store = <<>> THEN now
                                         ELSE store[1].updatedAt)>>
              ELSE store
  /\ saves' = [record |-> t, at |-> now,
               threw |-> IF ~redisConfigured THEN RedisNotConfigured
                         ELSE IF ~ok THEN RedisSetError ELSE "",
               prev |-> store,
               again |-> /\ redisConfigured /\ ok
                         /\ saves.threw = "" /\ saves.record = t
                         /\ store # <<>> /\ store[1].tokens = t]
  /\ UNCHANGED <<redisConfigured, oauthConfigured, now, cache, serverSeq,
                 ticks, calls, puts, inv, cacheObs, setups, widget, rot>>

\* storeTokens(t), whose redis.set answers (ok) or throws (~ok)
storeTokens(t, ok) ==
  /\ store' = IF redisConfigured /\ ok
              THEN <<TokenStorageData(t, now)>>
              ELSE store
  /\ saves' = [record |-> t, at |-> now,
               threw |-> IF ~redisConfigured THEN RedisNotConfigured
                         ELSE IF ~ok THEN RedisSetError ELSE "",
               prev |-> store,
               again |-> /\ redisConfigured /\ ok
                         /\ saves.threw = "" /\ saves.record = t
                         /\ store # <<>> /\ store[1].tokens = t]
  /\ UNCHANGED <<redisConfigured, oauthConfigured, now, cache, serverSeq,
                 ticks, calls, puts, inv, cacheObs, setups, widget, rot>>

\* ------------------------------------------- CalendarWidgetNoTouch (React)
\* The component before its first render.  fetchAttempt is the state of the
\* hook; closure is the fetchAttempt captured by the fetchEvents of the last
\* committed render (useCallback with [fetchAttempt]); a request or a retry
\* timer is named by the fetchAttempt its fetchEvents captured.
Unmounted ==
  [mounted |-> FALSE,
   fetchAttempt |-> 0,
   closure |-> 0,
   inflight |-> {},              \* fetch() calls not yet settled
   retry |-> {},                 \* pending 30 s retry timers
   error |-> FALSE,              \* the error state is set
   \* ---- observation
   requests |-> 0,               \* requests issued to /api/events
   triggers |-> 0]               \* mount, interval ticks, retry timers fired

\* fetchEvents of the render that captured fetchAttempt = k, up to its
\* await fetch(...): setFetchAttempt(k + 1) and the request
fetchEvents(w, k) ==
  [w EXCEPT !.fetchAttempt = k + 1, !.inflight = @ \cup {k},
            !.requests = @ + 1]

\* first render and its effects: the initial fetch, and the 2-minute
\* interval is set
WidgetMount ==
  /\ ~widget.mounted
  /\ widget' = [fetchEvents(widget, widget.closure) EXCEPT
                  !.mounted = TRUE, !.triggers = @ + 1]
  /\ UNCHANGED <<redisConfigured, oauthConfigured, now, store, cache,
                 serverSeq, ticks, calls, puts, inv, cacheObs, setups,
                 saves, rot>>

\* React commits the render that follows setFetchAttempt: fetchEvents is a
\* new function, so both effects depending on [fetchEvents] run again: the
\* "initial fetch" effect calls it, the interval is cleared and set anew
WidgetRender ==
  /\ widget.mounted
  /\ widget.fetchAttempt # widget.closure
  /\ widget.requests < MaxRequests
  /\ widget' = fetchEvents([widget EXCEPT !.closure = widget.fetchAttempt],
                           widget.fetchAttempt)
  /\ UNCHANGED <<redisConfigured, oauthConfigured, now, store, cache,
                 serverSeq, ticks, calls, puts, inv, cacheObs, setups,
                 saves, rot>>

\* the interval set by the last committed render fires
WidgetIntervalTick ==
  /\ widget.mounted
  /\ widget.requests < MaxRequests
  /\ widget' = [fetchEvents(widget, widget.closure) EXCEPT !.triggers = @ + 1]
  /\ UNCHANGED <<redisConfigured, oauthConfigured, now, store, cache,
                 serverSeq, ticks, calls, puts, inv, cacheObs, setups,
                 saves, rot>>

\* the request of fetchEvents k settles: with a 2xx answer the data is
\* set, otherwise (network error, abort, non-2xx) the error is set and the
\* 30 s retry timer is started
WidgetFetchDone(k, ok) ==
  /\ k \in widget.inflight
  /\ widget' = IF ok
               THEN [widget EXCEPT !.inflight = @ \ {k}, !.error = FALSE]
               ELSE [widget EXCEPT !.inflight = @ \ {k}, !.error = TRUE,
                                   !.retry = @ \cup {k}]
  /\ UNCHANGED <<redisConfigured, oauthConfigured, now, store, cache,
                 serverSeq, ticks, calls, puts, inv, cacheObs, setups,
                 saves, rot>>

\* a retry timer fires and calls the fetchEvents that started it
WidgetRetryFire(k) ==
  /\ k \in widget.retry
  /\ widget.requests < MaxRequests
  /\ widget' = [fetchEvents([widget EXCEPT !.retry = @ \ {k}], k) EXCEPT
                  !.triggers = @ + 1]
  /\ UNCHANGED <<redisConfigured, oauthConfigured, now, store, cache,
                 serverSeq, ticks, calls, puts, inv, cacheObs, setups,
                 saves, rot>>

\* ------------------------------------------------------ useRotation (React)
\* the hook before its first render
NoRotation ==
  [mounted |-> FALSE, totalItems |-> 1, enabled |-> FALSE, activeIndex |-> 0,
   \* ---- observation
   op |-> "none",                \* mount, next, previous, reset, tick
   before |-> 0]                 \* activeIndex before op

\* the % of JavaScript: the remainder has the sign of the dividend
JsRem(a, n) == IF a >= 0 THEN a % n ELSE 0 - ((0 - a) % n)

\* (current + 1) % totalItems
NextIndex(c, n) == JsRem(c + 1, n)

\* previous without the + totalItems
PreviousIndex_NoWrap(c, n) == JsRem(c - 1, n)

\* (current - 1 + totalItems) % totalItems
PreviousIndex(c, n) == JsRem(c - 1 + n, n)

\* the effect sets an interval unless !enabled || totalItems <= 1
HasInterval(r) == r.mounted /\ r.enabled /\ r.totalItems > 1

\* first render of a component using useRotation({totalItems: n, enabled: e})
RotMount(n, e) ==
  /\ ~rot.mounted
  /\ rot' = [mounted |-> TRUE, totalItems |-> n, enabled |-> e,
             activeIndex |-> 0, op |-> "mount", before |-> 0]
  /\ UNCHANGED <<redisConfigured, oauthConfigured, now, store, cache,
                 serverSeq, ticks, calls, puts, inv, cacheObs, setups,
                 saves, widget>>

RotNext ==
  /\ rot.mounted
  /\ rot' = [rot EXCEPT !.activeIndex = NextIndex(@, rot.totalItems),
                        !.op = "next", !.before = rot.activeIndex]
  /\ UNCHANGED <<redisConfigured, oauthConfigured, now, store, cache,
                 serverSeq, ticks, calls, puts, inv, cacheObs, setups,
                 saves, widget>>

RotPrevious ==
  /\ rot.mounted
  /\ rot' = [rot EXCEPT !.activeIndex = PreviousIndex(@, rot.totalItems),
                        !.op = "previous", !.before = rot.activeIndex]
  /\ UNCHANGED <<redisConfigured, oauthConfigured, now, store, cache,
                 serverSeq, ticks, calls, puts, inv, cacheObs, setups,
                 saves, widget>>

RotReset ==
  /\ rot.mounted
  /\ rot' = [rot EXCEPT !.activeIndex = 0,
                        !.op = "reset", !.before = rot.activeIndex]
  /\ UNCHANGED <<redisConfigured, oauthConfigured, now, store, cache,
                 serverSeq, ticks, calls, puts, inv, cacheObs, setups,
                 saves, widget>>

\* the interval fires: setInterval(next, intervalSeconds * 1000)
RotTick ==
  /\ HasInterval(rot)
  /\ rot' = [rot EXCEPT !.activeIndex = NextIndex(@, rot.totalItems),
                        !.op = "tick", !.before = rot.activeIndex]
  /\ UNCHANGED <<redisConfigured, oauthConfigured, now, store, cache,
                 serverSeq, ticks, calls, puts, inv, cacheObs, setups,
                 saves, widget>>

\* time passes while the cache layer is exercised
CacheTick ==
  /\ ticks < MaxCacheTicks
  /\ ticks' = ticks + 1
  /\ now' = now + CacheTickMs
  /\ UNCHANGED <<redisConfigured, oauthConfigured, store, cache,
                 serverSeq, calls, puts, inv, cacheObs, setups,
                 saves, widget, rot>>

\* time passes
Tick ==
  /\ ticks < MaxTicks
  /\ ticks' = ticks + 1
  /\ now' = now + TickMs
  /\ UNCHANGED <<redisConfigured, oauthConfigured, store, cache,
                 serverSeq, calls, puts, inv,
                 cacheObs, setups,
                 saves, widget, rot>>

Init ==
  /\ redisConfigured \in BOOLEAN
  /\ oauthConfigured \in BOOLEAN
  /\ now = Epoch
  /\ store \in {<<>>} \cup
       {<<TokenStorageData([access_token |-> 1, refresh_token |-> 1,
                            expiry_date |-> Epoch + off], Epoch)>> :
          off \in InitExpiryOffsets}
  /\ cache = [d \in Dates |-> NoEntry]
  /\ serverSeq = 1
  /\ ticks = 0 /\ calls = 0 /\ puts = 0
  /\ inv = [p \in Procs |-> Idle]
  /\ cacheObs = NoCacheOp
  /\ setups = NoSetup
  /\ saves = NoSave
  /\ widget = Unmounted
  /\ rot = NoRotation

\* the steps of the invocations in P, for requests of the dates in D, with
\* a token endpoint granting the lifetimes in L (0: no expiry_date in the
\* response) and a Calendar API answering with the item lists in U
Calls(P, D, L, U) ==
  \/ \E p \in P, d \in D : Start(p, d)
  \/ \E p \in P, ok \in BOOLEAN : LoadReturn(p, ok)
  \/ \E p \in P, rotate \in BOOLEAN, life \in L : RefreshOk(p, rotate, life)
  \/ \E p \in P, err \in {"invalid_grant", "network error"} :
       RefreshFail(p, err)
  \/ \E p \in P : StoreOk(p)
  \/ \E p \in P : StoreFail(p)
  \/ \E p \in P : SleepReturn(p)
  \/ \E p \in P, items \in U : ListOk(p, items)
  \/ \E p \in P : ListFail(p)

\* One handler at a time (a serverless instance serving requests one after
\* another), the setup script and the clock.
Next ==
  \/ Calls({"p1"}, Dates, {0} \cup Lifetimes, UpstreamItems)
  \/ \E ok \in BOOLEAN : Authorize(ok)
  \/ Tick

Spec == Init /\ [][Next]_vars

\* The same with a client of lib/calendar-cache.ts writing cache entries.
NextCached ==
  \/ Next
  \/ \E d \in Dates, items \in UpstreamItems, ok \in BOOLEAN :
       puts < MaxPuts /\ setCachedCalendar(d, CalendarResponse(items, d), ok)

SpecCached == Init /\ [][NextCached]_vars

\* The same, in a deployment with the store and the OAuth client configured.
InitDeployed == Init /\ redisConfigured /\ oauthConfigured

SpecDeployed == InitDeployed /\ [][Next]_vars

\* Two handlers running at once in such a deployment, with a token endpoint
\* that sends no expiry_date.
NextRace == Calls(Procs, {"2026-01-26"}, {0}, {<<>>})

SpecRace == InitDeployed /\ [][NextRace]_vars

\* Every operation that reaches the Redis store, one handler at a time: the
\* agenda fetch, the status handler, the cache layer (called between two
\* handler runs), the setup script.  The initial records are a stale one
\* and a valid one; the clock moves only by the sleeps of the retry loop.
StatusCalls(P) ==
  \/ \E p \in P : StartStatus(p)
  \/ \E p \in P, ok \in BOOLEAN : ProbeReturn(p, ok)

CacheCalls(D, U, maxPuts) ==
  \/ \E d \in D, ok \in BOOLEAN : getCachedCalendar(d, ok)
  \/ \E d \in D, items \in U, ok \in BOOLEAN :
       puts < maxPuts /\ setCachedCalendar(d, CalendarResponse(items, d), ok)

NextOps ==
  \/ Calls({"p1"}, {"2026-01-26"}, {0}, {<<>>})
  \/ StatusCalls({"p1"})
  \/ /\ \A p \in Procs : inv[p].pc \in {"idle", "done"}
     /\ CacheCalls({"2026-01-26"}, {<<>>}, MaxPuts)
  \/ \E ok \in BOOLEAN : Authorize(ok)

SpecOps == Init /\ [][NextOps]_vars

\* lib/calendar-cache.ts alone, called for any date with any response
InitCacheLayer == Init /\ oauthConfigured /\ store = <<>>

NextCacheLayer ==
  \/ CacheCalls(Dates, UpstreamItems, MaxCachePuts)
  \/ CacheTick

SpecCacheLayer == InitCacheLayer /\ [][NextCacheLayer]_vars

\* storeTokens alone, called with any of the records at any time
NextSave ==
  \/ \E t \in SaveRecords, ok \in BOOLEAN : storeTokens(t, ok)
  \/ Tick

SpecSave == Init /\ [][NextSave]_vars

\* One handler at a time in a deployment, every request being answered and
\* every timer firing in the end.
NextSingle == Calls({"p1"}, {"2026-01-26"}, {0}, {<<>>})

SpecResponsive == InitDeployed /\ [][NextSingle]_vars /\ WF_vars(NextSingle)

\* The same with dependencies that may leave a request unanswered.
NextHung ==
  \/ NextSingle
  \/ \E p \in {"p1"} : Hang(p)

SpecHung == InitDeployed /\ [][NextHung]_vars /\ WF_vars(NextSingle)

\* The browser side: no handler runs.
InitUI == Init /\ redisConfigured /\ oauthConfigured /\ store = <<>>

NextWidget ==
  \/ WidgetMount
  \/ WidgetRender
  \/ WidgetIntervalTick
  \/ \E k \in 0..MaxRequests, ok \in BOOLEAN : WidgetFetchDone(k, ok)
  \/ \E k \in 0..MaxRequests : WidgetRetryFire(k)

SpecWidget == InitUI /\ [][NextWidget]_vars

NextRotation ==
  \/ \E n \in 1..MaxItems, e \in BOOLEAN : RotMount(n, e)
  \/ RotNext
  \/ RotPrevious
  \/ RotReset
  \/ RotTick

SpecRotation == InitUI /\ [][NextRotation]_vars


\* ================================================================ claims
\* the invocation has its tokens from loadTokens
Loaded(p) == inv[p].loadSaw = "present"

\* C1: whenever an unexpired cache entry exists for the requested date when
\* get_agenda is called, the call makes no credential lookup, no store
\* read, no refresh attempt and no events.list call, and it returns the
\* cached payload.
C1_CacheHitServedFromCache ==
  \A p \in Procs :
    inv[p].hadLiveEntry =>
      /\ inv[p].lookups = 0
      /\ inv[p].storeReads = 0
      /\ inv[p].attempt = 0
      /\ inv[p].listCalls = 0
      /\ inv[p].pc = "done" =>
           inv[p].outcome = "ok" /\ inv[p].result = inv[p].startCache.payload

\* C2: a loaded record with now < expiry - 5 min is returned as loaded,
\* with no refresh attempt and no write of the credential key.
C2_ValidReturnedUnchanged ==
  \A p \in Procs :
    (Loaded(p) /\ inv[p].loadAt < inv[p].tokens.expiry_date - 300000) =>
      /\ inv[p].cred = inv[p].tokens
      /\ inv[p].credAt = inv[p].loadAt
      /\ inv[p].attempt = 0
      /\ inv[p].rejects = 0
      /\ inv[p].refreshedTokens = NoTokens
      /\ inv[p].storeWrites = 0
      /\ inv[p].pc \in {"list", "done"}

C2_Witness ==
  \E p \in Procs :
    /\ Loaded(p) /\ inv[p].loadAt < inv[p].tokens.expiry_date - 300000
    /\ inv[p].pc = "list"
    /\ store # <<>> /\ inv[p].cred = store[1].tokens


\* the loaded record was stale when refreshTokensIfNeeded looked at it
Stale(p) == Loaded(p) /\ inv[p].loadAt >= inv[p].tokens.expiry_date - 300000

\* the expiry the code gives a refreshed record
Granted(p) ==
  IF inv[p].serverExpiry # 0 THEN inv[p].serverExpiry
  ELSE inv[p].respAt + 3600000

\* C3 (as claimed): a stale record leads to at least one refresh attempt,
\* and a refresh that succeeds yields an expiry strictly greater than the
\* old one.
C3_StaleRefreshedLaterExpiry ==
  \A p \in Procs :
    Stale(p) =>
      /\ inv[p].attempt >= 1
      /\ inv[p].storeWrites >= 1 =>
           inv[p].cred.expiry_date > inv[p].tokens.expiry_date

\* C3 (amended): with the OAuth client configured a stale record leads to
\* at least one refresh attempt; a refresh that succeeds yields the expiry
\* the server sent, or the response time plus one hour when it sent none,
\* and that is strictly greater than the old expiry whenever the server
\* sent none or one more than 5 minutes after its response.
C3_Amended ==
  \A p \in Procs :
    Stale(p) =>
      /\ oauthConfigured => inv[p].attempt >= 1
      /\ inv[p].storeWrites >= 1 =>
           /\ inv[p].cred.expiry_date = Granted(p)
           /\ (inv[p].serverExpiry = 0 \/ inv[p].serverExpiry > inv[p].respAt + 300000)
                => inv[p].cred.expiry_date > inv[p].tokens.expiry_date

C3_Witness ==
  \E p \in Procs :
    /\ Stale(p) /\ inv[p].storeWrites >= 1 /\ inv[p].serverExpiry = 0
    /\ inv[p].cred.expiry_date > inv[p].tokens.expiry_date

\* C4: the record persisted and returned by a successful refresh carries
\* the server's refresh_token when the response had one and the loaded
\* record's refresh_token when it had none.
C4_RefreshTokenKeptOrReplaced ==
  \A p \in Procs :
    inv[p].storeWrites >= 1 =>
      /\ inv[p].cred.refresh_token =
           (IF inv[p].serverRT # 0 THEN inv[p].serverRT
            ELSE inv[p].tokens.refresh_token)
      /\ inv[p].cred.refresh_token # 0
      /\ store # <<>> /\ store[1].tokens = inv[p].cred

C4_Witness ==
  \E p \in Procs :
    /\ inv[p].storeWrites >= 1 /\ inv[p].serverRT = 0
    /\ store[1].tokens.refresh_token = inv[p].tokens.refresh_token
    /\ store[1].tokens.access_token # inv[p].tokens.access_token

\* C5: an attempt that reported invalid_grant ends the call at once with
\* ReauthorizationRequired: no sleep and no attempt follow it (a first
\* attempt that reports it is the only attempt) and the credential key is
\* not written.
C5_InvalidGrantNotRetried ==
  \A p \in Procs :
    inv[p].lastError = "invalid_grant" =>
      /\ inv[p].pc = "done"
      /\ inv[p].outcome = ReauthorizationRequired
      /\ Len(inv[p].sleeps) = inv[p].attempt - 1
      /\ inv[p].rejects <= inv[p].attempt
      /\ inv[p].storeWrites = 0
      /\ inv[p].listCalls = 0

C5_Witness ==
  \E p \in Procs :
    /\ inv[p].lastError = "invalid_grant" /\ inv[p].attempt = 1
    /\ inv[p].outcome = ReauthorizationRequired

\* C6: a call whose every attempt was rejected by the token endpoint with
\* a transient error made exactly 3 attempts, slept 1 s, 2 s and 4 s, and
\* ended with RefreshFailed.
C6_ThreeAttemptsDelays124 ==
  \A p \in Procs :
    (/\ inv[p].pc = "done" /\ inv[p].attempt >= 1
     /\ inv[p].rejects = inv[p].attempt
     /\ inv[p].lastError # "invalid_grant") =>
      /\ inv[p].attempt = 3
      /\ inv[p].sleeps = <<1000, 2000, 4000>>
      /\ inv[p].outcome = RefreshFailed

\* C7: a call that ended with RefreshFailed left the stored record as it
\* loaded it (same access token, refresh token and expiry), and the next
\* call that loads the record attempts the refresh again.
C7_FailedRefreshLeavesRecord ==
  \A p \in Procs :
    /\ inv[p].outcome = RefreshFailed =>
         /\ inv[p].storeWrites = 0
         /\ store # <<>> /\ store[1].tokens = inv[p].tokens
         /\ store = inv[p].startStore
    /\ (inv[p].afterFailed /\ Loaded(p)) =>
         /\ inv[p].tokens = inv[p].startStore[1].tokens
         /\ inv[p].attempt >= 1

C7_Witness ==
  \E p \in Procs :
    inv[p].afterFailed /\ Loaded(p) /\ inv[p].rejects >= 1

\* C8: a call that finds no record under the credential key ends with
\* NotAuthorized, having called neither the token endpoint nor the
\* Calendar API.
C8_NoRecordNotAuthorized ==
  \A p \in Procs :
    inv[p].loadSaw = "absent" =>
      /\ inv[p].pc = "done"
      /\ inv[p].outcome = NotAuthorized
      /\ inv[p].attempt = 0
      /\ inv[p].listCalls = 0
      /\ inv[p].storeWrites = 0

C8_Witness ==
  \E p \in Procs :
    inv[p].loadSaw = "absent" /\ inv[p].outcome = NotAuthorized

C10_RefreshTokenNeverRolledBack ==
  [][(store # <<>> /\ store' # <<>> /\
      store'[1].tokens.refresh_token # store[1].tokens.refresh_token)
       => \E p \in Procs :
            /\ inv'[p].storeWrites = inv[p].storeWrites + 1
            /\ inv[p].serverRT # 0
            /\ store'[1].tokens.refresh_token = inv[p].serverRT]_vars

\* what the setup script's storeTokens wrote in this step, if it ran
SetupWrote ==
  /\ store = <<>>
  /\ setups'.wrote /\ setups'.outcome = "stored"
  /\ store'[1].tokens.access_token = serverSeq'
  /\ serverSeq' = serverSeq + 1
  /\ inv' = inv

\* invocation p completed the redis.set of the record it built from a
\* token-endpoint response of its own
LifecycleWrote(p) ==
  /\ inv[p].pc = "store"
  /\ inv[p].respAt # 0
  /\ inv[p].refreshedTokens.access_token > inv[p].tokens.access_token
  /\ inv'[p].storeWrites = inv[p].storeWrites + 1
  /\ store' = <<TokenStorageData(inv[p].refreshedTokens, inv[p].respAt)>>

\* C11: every change of the credential key is made by the setup script or
\* by refreshTokensIfNeeded after a token-endpoint call that succeeded in
\* the same invocation; the cache calls, the fetch path, the status
\* handler's own code and a failed refresh never change it.
C11_OnlySetupAndLifecycleWrite ==
  [][store' # store =>
       /\ cacheObs' = cacheObs
       /\ \/ SetupWrote
          \/ \E p \in Procs : LifecycleWrote(p)]_vars

C11_Witness ==
  \E p \in Procs :
    /\ inv[p].kind = "status" /\ inv[p].storeWrites = 1
    /\ store = <<TokenStorageData(inv[p].refreshedTokens, inv[p].respAt)>>
    /\ cacheObs.op # "none"

\* C12: once a record exists under the credential key, one exists in every
\* later state, whatever agenda, status, cache and setup calls follow and
\* however they end.
C12_RecordNeverDeleted ==
  [][store # <<>> => store' # <<>>]_vars

C12_Witness ==
  \E p \in Procs :
    /\ inv[p].outcome = ReauthorizationRequired
    /\ inv[p].startStore # <<>> /\ store = inv[p].startStore

\* C13: after a get_agenda(D) that succeeded without a live cache entry,
\* the payload it returned is stored in the cache under the key of D.
C13_MissResultCached ==
  \A p \in Procs :
    (/\ inv[p].kind = "agenda" /\ inv[p].pc = "done"
     /\ inv[p].outcome = "ok" /\ ~inv[p].hadLiveEntry) =>
      /\ cache[inv[p].date] # NoEntry
      /\ cache[inv[p].date].payload = Stringify(inv[p].result)

\* C14: when calendar.events.list rejects after a credential was obtained,
\* get_agenda ends with UpstreamError after that single listing call,
\* returns no payload and leaves the cache entry of its date as it was.
C14_ListFailureSurfaced ==
  \A p \in Procs :
    (inv[p].kind = "agenda" /\ inv[p].listRejects >= 1) =>
      /\ inv[p].pc = "done"
      /\ inv[p].outcome = UpstreamError
      /\ inv[p].listCalls = 1
      /\ inv[p].listRejects = 1
      /\ inv[p].result = NoPayload
      /\ cache[inv[p].date] = inv[p].startCache

C14_Witness ==
  \E p \in Procs :
    /\ inv[p].kind = "agenda" /\ inv[p].listRejects = 1
    /\ inv[p].cred # NoTokens /\ inv[p].outcome = UpstreamError

\* C15: getCachedCalendar never rejects, and with the store unconfigured
\* or its read failing it returns null, the result for an absent key.
C15_GetNeverRaises ==
  cacheObs.op = "get" =>
    /\ ~cacheObs.threw
    /\ (~redisConfigured \/ ~cacheObs.storeOk) => cacheObs.returned = <<>>

C15_Witness ==
  /\ cacheObs.op = "get" /\ redisConfigured /\ ~cacheObs.storeOk
  /\ CacheLive(cache[cacheObs.key], cacheObs.at)
  /\ cacheObs.returned = <<>> /\ ~cacheObs.threw

\* C16: setCachedCalendar never rejects: with the store unconfigured or its
\* write failing it returns normally (and without a store no entry exists).
C16_PutNeverRaises ==
  cacheObs.op = "put" =>
    /\ ~cacheObs.threw
    /\ cacheObs.returned = <<>>
    /\ ~redisConfigured => \A d \in Dates : cache[d] = NoEntry

C16_Witness ==
  /\ cacheObs.op = "put" /\ redisConfigured /\ ~cacheObs.storeOk
  /\ ~cacheObs.threw /\ cache[cacheObs.key] = NoEntry

\* C17: a get that works, made less than 300 s after the last write of its
\* key, returns the JSON value of the data passed to that write.
C17_RoundTrip ==
  (/\ cacheObs.op = "get" /\ redisConfigured /\ cacheObs.storeOk
   /\ cacheObs.putAt[cacheObs.key] # 0
   /\ cacheObs.at < cacheObs.putAt[cacheObs.key] + 300000) =>
    cacheObs.returned = <<Stringify(cacheObs.putData[cacheObs.key])>>

C17_Witness ==
  /\ cacheObs.op = "get" /\ cacheObs.returned # <<>>
  /\ cacheObs.at > cacheObs.putAt[cacheObs.key]
  /\ Len(cacheObs.returned[1].events) = 2
  /\ cacheObs.returned[1] = Stringify(cacheObs.putData[cacheObs.key])
  /\ DOMAIN cacheObs.returned[1].events[1] #
       DOMAIN cacheObs.putData[cacheObs.key].events[1]

\* C18: an entry expires 300 s after the last write of its key: a get that
\* works is a hit while fewer than 300 s have passed since that write and a
\* miss from then on, whatever gets were made in between.
C18_FixedTtl ==
  /\ \A d \in Dates :
       cacheObs.putAt[d] # 0 => cache[d].expiresAt = cacheObs.putAt[d] + 300000
  /\ (cacheObs.op = "get" /\ redisConfigured /\ cacheObs.storeOk) =>
       (cacheObs.returned # <<>> <=>
          /\ cacheObs.putAt[cacheObs.key] # 0
          /\ cacheObs.at < cacheObs.putAt[cacheObs.key] + 300000)

C18_Witness ==
  /\ cacheObs.op = "get" /\ redisConfigured /\ cacheObs.storeOk
  /\ cacheObs.putAt[cacheObs.key] # 0
  /\ cacheObs.at >= cacheObs.putAt[cacheObs.key] + 300000
  /\ cacheObs.returned = <<>>

\* C19: loadTokens returns null, and does not throw, when the store is
\* unconfigured, when redis.get throws and when there is no record: its
\* callers go on as they do without tokens (getOAuthCalendarClient throws
\* NotAuthorized, the status handler answers authenticated: false).
C19_LoadFailsSoftly ==
  \A p \in Procs :
    (\/ ~redisConfigured /\ inv[p].lookups >= 1
     \/ inv[p].probeSaw \in {"absent", "error"}
     \/ inv[p].loadSaw \in {"absent", "error"}) =>
      /\ inv[p].pc = "done"
      /\ inv[p].attempt = 0
      /\ inv[p].outcome = (IF inv[p].kind = "status" /\ inv[p].loadSaw = ""
                           THEN Unauthenticated ELSE NotAuthorized)

C19_Witness ==
  \E p \in Procs :
    /\ inv[p].loadSaw = "error" /\ store # <<>>
    /\ inv[p].outcome = NotAuthorized

\* C20: storeTokens never reports success without the write: when
\* redis.set throws, its caller gets that error (refreshTokensIfNeeded
\* takes it as a failed attempt and returns nothing), and the setup script
\* gets an error unless the store is configured and the write worked.
C20_SaveFailsLoudly ==
  [][/\ \A p \in Procs :
          inv'[p].storeFails = inv[p].storeFails + 1 =>
            /\ inv'[p].lastError = RedisSetError
            /\ inv'[p].pc \in {"sleep", "done"}
            /\ inv'[p].cred = NoTokens
            /\ inv'[p].storeWrites = 0
            /\ store' = store
     /\ inv' = inv =>
          /\ setups'.outcome = "stored" <=> setups'.wrote
          /\ (setups' # setups /\ ~setups'.wrote) => store' = store
          /\ (setups' # setups /\ ~redisConfigured) =>
               setups'.outcome = RedisNotConfigured]_vars

C20_Witness ==
  \E p \in Procs :
    /\ inv[p].storeFails >= 1 /\ inv[p].pc = "sleep"
    /\ inv[p].lastError = RedisSetError
    /\ store # <<>> /\ store[1].tokens = inv[p].tokens

Failed(p) ==
  /\ inv[p].kind = "agenda" /\ inv[p].pc = "done"
  /\ inv[p].outcome \notin {"none", "ok"}

\* C22: the handler can tell the four error outcomes of the agenda fetch
\* apart, and each reaches it as raised: the messages are pairwise
\* different, and the message the handler answers with is NotAuthorized
\* exactly when no record was loaded, ReauthorizationRequired exactly when
\* the token endpoint answered invalid_grant, RefreshFailed exactly when
\* three attempts failed otherwise, UpstreamError exactly when
\* events.list was rejected.
C22_ErrorsDistinguishable ==
  /\ Cardinality({NotAuthorized, ReauthorizationRequired, RefreshFailed,
                  UpstreamError}) = 4
  /\ \A p \in Procs :
       Failed(p) =>
         LET l == inv[p]
             r == HandlerResponse(l)
         IN /\ r.status = 500
            /\ r.message = NotAuthorized <=> l.loadSaw # "present"
            /\ r.message = ReauthorizationRequired <=>
                 l.lastError = "invalid_grant"
            /\ r.message = RefreshFailed <=>
                 /\ l.lastError \notin {"", "invalid_grant"}
                 /\ l.attempt = MAX_REFRESH_RETRIES
                 /\ l.rejects + l.storeFails = MAX_REFRESH_RETRIES
            /\ r.message = UpstreamError <=> l.listRejects = 1

C22_Witness ==
  /\ Failed("p1")
  /\ inv["p1"].rejects = 2 /\ inv["p1"].lastError = "invalid_grant"
  /\ HandlerResponse(inv["p1"]).message = ReauthorizationRequired

\* C23: the error raised when the retries are exhausted carries the error
\* of the last failed attempt.
C23_RefreshFailedCarriesLast ==
  \A p \in Procs :
    Failed(p) /\ inv[p].outcome = RefreshFailed =>
      ThrownError(inv[p]).cause = inv[p].lastError

C25_AllDayNormalized ==
  \A p \in Procs :
    inv[p].kind = "agenda" /\ inv[p].outcome = "ok" =>
      /\ Len(inv[p].result.events) = Len(inv[p].items)
      /\ \A i \in 1..Len(inv[p].items) :
           LET e == inv[p].items[i]
               a == inv[p].result.events[i]
           IN /\ a.allDay <=> e.startDateTime = ""
              /\ e.startDateTime = "" /\ e.startDate # "" =>
                   a.allDay /\ a.start = e.startDate /\ a.end = e.endDate
              /\ e.startDateTime # "" =>
                   /\ ~a.allDay
                   /\ a.start = e.startDateTime /\ a.end = e.endDateTime

C25_Witness ==
  /\ inv["p1"].outcome = "ok" /\ Len(inv["p1"].items) = 2
  /\ inv["p1"].result.events[1].allDay
  /\ inv["p1"].result.events[1].start = "2026-01-26"
  /\ ~inv["p1"].result.events[2].allDay
  /\ inv["p1"].result.events[2].end = "2026-01-26T09:30:00+05:30"

\* C26: a record obtained from the token endpoint is returned by
\* refreshTokensIfNeeded only in the step in which the write of exactly
\* that record to the credential key completes, and a step in which the
\* write fails returns no record.
C26_PersistedBeforeReturned ==
  [][\A p \in Procs :
       /\ (/\ inv'[p].cred # inv[p].cred
           /\ inv'[p].cred # NoTokens
           /\ inv'[p].grants >= 1)
          => /\ inv[p].pc = "store"
             /\ inv'[p].cred = inv[p].refreshedTokens
             /\ inv'[p].storeWrites = inv[p].storeWrites + 1
             /\ store' = <<TokenStorageData(inv'[p].cred, inv[p].respAt)>>
       /\ inv'[p].storeFails > inv[p].storeFails
          => inv'[p].cred = NoTokens /\ store' = store]_vars

C26_Witness ==
  /\ inv["p1"].cred # NoTokens /\ inv["p1"].cred = inv["p1"].refreshedTokens
  /\ inv["p1"].storeFails = 1 /\ inv["p1"].storeWrites = 1
  /\ store = <<TokenStorageData(inv["p1"].cred, inv["p1"].respAt)>>

\* C27: a failed write of the refreshed record counts as a failed
\* attempt: it uses up one of the three attempts, the next attempt asks
\* the token endpoint again, and three failed writes end the call with
\* the retry-exhaustion error, never with the error of the store.
C27_StoreFailureIsAttempt ==
  \A p \in Procs :
    LET l == inv[p]
    IN /\ l.outcome \notin {RedisSetError, RedisNotConfigured}
       /\ l.storeFails <= l.grants
       /\ l.rejects + l.storeFails <= l.attempt
       /\ l.pc \in {"sleep", "done"} /\ l.storeFails >= 1 /\ l.storeWrites = 0
            => l.rejects + l.storeFails = l.attempt
       /\ l.pc = "store" => l.grants = l.storeFails + 1
       /\ l.storeFails = MAX_REFRESH_RETRIES =>
            /\ l.pc = "done" /\ l.outcome = RefreshFailed
            /\ l.grants = MAX_REFRESH_RETRIES
            /\ l.lastError = RedisSetError

C27_Witness ==
  /\ inv["p1"].pc = "done" /\ inv["p1"].outcome = RefreshFailed
  /\ inv["p1"].storeFails = 3 /\ inv["p1"].grants = 3
  /\ inv["p1"].rejects = 0

\* between loadTokens being called and refreshTokensIfNeeded returning or
\* throwing
InCredential(p) == inv[p].pc \in {"load", "refresh", "store", "sleep"}

C29_OneRequestPerTrigger ==
  widget.requests <= widget.triggers

\* C30: with totalItems >= 1, activeIndex stays in 0..totalItems-1; next
\* and the automatic tick step forward and wrap from the last index to 0,
\* previous steps back and wraps from 0 to the last index, reset gives 0;
\* no tick happens when rotation is disabled or totalItems <= 1.
C30_IndexInRange ==
  rot.mounted =>
    /\ rot.activeIndex \in 0..(rot.totalItems - 1)
    /\ rot.op \in {"next", "tick"} =>
         rot.activeIndex = (IF rot.before = rot.totalItems - 1 THEN 0
                            ELSE rot.before + 1)
    /\ rot.op = "previous" =>
         rot.activeIndex = (IF rot.before = 0 THEN rot.totalItems - 1
                            ELSE rot.before - 1)
    /\ rot.op = "reset" => rot.activeIndex = 0
    /\ rot.op = "tick" => rot.enabled /\ rot.totalItems > 1

C30_Witness ==
  /\ rot.mounted /\ rot.totalItems = 3
  /\ rot.op = "previous" /\ rot.before = 0 /\ rot.activeIndex = 2

====
